---- MODULE Spec2Model ----
(***************************************************************************)
(* Cold-Mail-Send: a model of the two scripts of the repository.           *)
(*                                                                         *)
(*   secure_email_sender.py  the mailer: send_emails() and its helpers.    *)
(*   security_monitor.py     the scanner: main() and its four checks.      *)
(*                                                                         *)
(* Text (e-mail addresses, source lines) is a sequence of one-character    *)
(* strings, so that the regular expressions of the code are computed on    *)
(* the characters.  The ledger file sent_emails_log.csv is the sequence of *)
(* its data rows and is read back as it was written.                       *)
(***************************************************************************)
EXTENDS Integers, Sequences, FiniteSets, Bags, TLC

(* ------------------------------ bounds -------------------------------- *)
MaxRows == 3          \* rows of a short recipients.csv
MaxRuns == 2          \* runs of the mailer, each starting from the ledger left by the last
PaceRows == 8         \* rows of the recipients.csv that exercises the batch pauses
LongRows == 52        \* rows of the recipients.csv that exceeds the session cap
MaxLongFailures == 1  \* sendmail failures per run on the PaceRows and LongRows lists

(* ----------------------------- characters ----------------------------- *)
Range(s) == {s[k] : k \in DOMAIN s}

Lowers ==
  <<"a","b","c","d","e","f","g","h","i","j","k","l","m",
    "n","o","p","q","r","s","t","u","v","w","x","y","z">>

Uppers ==
  <<"A","B","C","D","E","F","G","H","I","J","K","L","M",
    "N","O","P","Q","R","S","T","U","V","W","X","Y","Z">>

DigitSeq == <<"0","1","2","3","4","5","6","7","8","9">>

\* [A-Za-z]
AsciiLetters == Range(Lowers) \cup Range(Uppers)

\* \w of a str pattern
WordChars == AsciiLetters \cup Range(DigitSeq) \cup {"_"}

AllIn(s, lo, hi, S) == \A k \in lo..hi : s[k] \in S

(* ------------------------------ mailer -------------------------------- *)
MAX_EMAILS_PER_SESSION == 50

BatchSizes == 3..7            \* random.randint(3, 7)
EmailDelays == {2, 12}        \* samples of random.uniform(2, 12)
BatchDelays == {30, 90}       \* samples of random.randint(30, 90)

\* An empty cell of recipients.csv: pandas reads it as NaN, not as a string.
NaN == <<>>

\* ([\w\-]+\.)+ on s[lo..hi], where s[hi] is the dot that ends the last label
DomainLabels(s, lo, hi) ==
  /\ lo < hi
  /\ AllIn(s, lo, hi, WordChars \cup {"-", "."})
  /\ s[lo] # "."
  /\ \A k \in lo..(hi - 1) : ~(s[k] = "." /\ s[k + 1] = ".")

\* the pattern of is_valid_email, anchored at both ends of s
EmailPattern(s) ==
  \E at \in 2..Len(s) : \E dot \in (at + 2)..(Len(s) - 2) :
    /\ s[at] = "@"
    /\ AllIn(s, 1, at - 1, WordChars \cup {".", "-"})
    /\ s[dot] = "."
    /\ DomainLabels(s, at + 1, dot)
    /\ AllIn(s, dot + 1, Len(s), AsciiLetters)

\* re.match(pattern, email): "$" also matches before one trailing newline
is_valid_email(email) ==
  \/ EmailPattern(email)
  \/ /\ Len(email) > 0
     /\ email[Len(email)] = "\n"
     /\ EmailPattern(SubSeq(email, 1, Len(email) - 1))

RECURSIVE DigitsOf(_)
DigitsOf(n) ==
  IF n < 10 THEN <<DigitSeq[n + 1]>>
  ELSE DigitsOf(n \div 10) \o <<DigitSeq[(n % 10) + 1]>>

\* the n-th generated address, "u<n>@x.io"
EmailOf(n) == <<"u">> \o DigitsOf(n) \o <<"@", "x", ".", "i", "o">>

GenList(n) == [k \in 1..n |-> EmailOf(k)]

ValidPool ==
  { <<"a", "@", "b", ".", "c", "o">>,
    <<"j", ".", "d", "@", "x", "-", "y", ".", "i", "o">> }

InvalidPool ==
  { <<"n", "o", "t", "-", "a", "n", "-", "e", "m", "a", "i", "l">>,
    <<"a", "@", "b", ".", "c">> }

Pool == ValidPool \cup InvalidPool \cup {NaN}

ShortLists == UNION {[1..n -> Pool] : n \in 0..MaxRows}

Entry(email, status, error) == [email |-> email, status |-> status, error |-> error]

VARIABLES
  recipients,      \* recipients.csv: the email column, row by row
  ledger_exists,   \* os.path.exists(SENT_LOG_FILE)
  ledger,          \* sent_emails_log.csv: its rows
  delivered,       \* bag of the addresses server.sendmail accepted, over all runs
  runs,            \* runs of send_emails started so far
  pc,              \* "idle" | "loop" | "returned"
  exit_path,       \* which return of send_emails was taken
  df,              \* send_emails: the validated rows
  already_sent,    \* send_emails: set of ledger emails
  idx,             \* send_emails: the row the for loop is at
  log,             \* send_emails: this run's entries
  email_counter,   \* send_emails: attempts since the last batch pause
  batch_size,      \* send_emails: current batch size
  total_sent,
  total_skipped,
  slept,           \* the sleeps of the last loop iteration, in seconds
  pause_at,        \* len(log) at the last batch pause of this run
  prev_log,        \* update_sent_log: the ledger rows read before the rewrite
  last_run_log,    \* the entries of the previous run
  file_path,       \* scanner: the path of the .py file rglob yields
  content,         \* scanner: f.read().split('\n') of that file
  scan_pc,         \* scanner: "off" | "creds" | "bandit" | "input" | "deps" | "report" | "exit"
  line_num,        \* check_for_hardcoded_credentials: line_num
  findings,        \* check_for_hardcoded_credentials: findings
  all_findings,    \* main: all_findings
  summary,         \* generate_report: report['summary']
  exit_code        \* what main returns to sys.exit

mvars ==
  <<recipients, ledger_exists, ledger, delivered, runs, pc, exit_path, df,
    already_sent, idx, log, email_counter, batch_size, total_sent,
    total_skipped, slept, pause_at, prev_log, last_run_log>>

svars ==
  <<file_path, content, scan_pc, line_num, findings, all_findings, summary, exit_code>>

vars == <<mvars, svars>>

validate_files(resume_exists, csv_exists) == resume_exists /\ csv_exists

\* lines 75-88 without the filter of line 83
load_recipients_unfiltered(csv_readable) ==
  IF ~csv_readable \/ (\E k \in DOMAIN recipients : recipients[k] = NaN)
  THEN <<>>
  ELSE recipients

\* pd.read_csv raising, or is_valid_email raising TypeError on a NaN cell,
\* lands in the except branch, which returns an empty frame.
load_recipients(csv_readable) ==
  IF ~csv_readable \/ (\E k \in DOMAIN recipients : recipients[k] = NaN)
  THEN <<>>
  ELSE SelectSeq(recipients, is_valid_email)

\* lines 92-100; the except branch (a ledger file pandas cannot parse) is left out
load_sent_log ==
  IF ledger_exists THEN {ledger[k].email : k \in DOMAIN ledger} ELSE {}

IsSuccess(entry) == entry.status = "Success"

SuccessOnly(entries) == SelectSeq(entries, IsSuccess)

\* line 127 alone: the previous rows are not read back
updated_log_overwrite(entries) == SuccessOnly(entries)

\* the rows update_sent_log writes to SENT_LOG_FILE
updated_log(entries) ==
  IF ledger_exists THEN ledger \o SuccessOnly(entries) ELSE SuccessOnly(entries)

NumFailed(entries) == Len(entries) - Len(SuccessOnly(entries))

FailLimit ==
  IF Len(recipients) > MaxRows THEN MaxLongFailures ELSE Len(recipients)

Locals ==
  <<df, already_sent, idx, log, email_counter, batch_size, total_sent,
    total_skipped, slept, pause_at>>

World ==
  <<recipients, ledger_exists, ledger, delivered, runs, prev_log, last_run_log, svars>>

Return(path) ==
  /\ pc' = "returned"
  /\ exit_path' = path

\* lines 137-138
AbortNoFiles ==
  /\ pc = "idle"
  /\ \E resume_exists, csv_exists \in BOOLEAN :
       ~validate_files(resume_exists, csv_exists)
  /\ Return("no_files")
  /\ UNCHANGED <<World, Locals>>

\* lines 141-144
AbortNoRecipients ==
  /\ pc = "idle"
  /\ \E csv_readable \in BOOLEAN :
       /\ load_recipients(csv_readable) = <<>>
       /\ df' = load_recipients(csv_readable)
  /\ Return("no_recipients")
  /\ UNCHANGED <<World, already_sent, idx, log, email_counter, batch_size,
                 total_sent, total_skipped, slept, pause_at>>

\* lines 141-155
AbortResume ==
  /\ pc = "idle"
  /\ load_recipients(TRUE) # <<>>
  /\ df' = load_recipients(TRUE)
  /\ already_sent' = load_sent_log
  /\ Return("resume_error")
  /\ UNCHANGED <<World, idx, log, email_counter, batch_size,
                 total_sent, total_skipped, slept, pause_at>>

\* lines 141-168 falling through to line 234 instead of returning
AbortSmtpThenLog ==
  /\ pc = "idle"
  /\ load_recipients(TRUE) # <<>>
  /\ df' = load_recipients(TRUE)
  /\ already_sent' = load_sent_log
  /\ \E path \in {"auth_failed", "smtp_error"} : Return(path)
  /\ prev_log' = (IF ledger_exists THEN ledger ELSE <<>>)
  /\ ledger' = (IF ledger_exists THEN ledger ELSE <<>>)
  /\ ledger_exists' = TRUE
  /\ UNCHANGED <<recipients, delivered, runs, last_run_log, svars, idx, log,
                 email_counter, batch_size, total_sent, total_skipped, slept, pause_at>>

\* lines 141-168
AbortSmtp ==
  /\ pc = "idle"
  /\ load_recipients(TRUE) # <<>>
  /\ df' = load_recipients(TRUE)
  /\ already_sent' = load_sent_log
  /\ \E path \in {"auth_failed", "smtp_error"} : Return(path)
  /\ UNCHANGED <<World, idx, log, email_counter, batch_size,
                 total_sent, total_skipped, slept, pause_at>>

\* lines 141-178: every setup step succeeds
BeginLoop ==
  /\ pc = "idle"
  /\ load_recipients(TRUE) # <<>>
  /\ df' = load_recipients(TRUE)
  /\ already_sent' = load_sent_log
  /\ log' = <<>>
  /\ email_counter' = 0
  /\ batch_size' \in BatchSizes
  /\ total_sent' = 0
  /\ total_skipped' = 0
  /\ idx' = 1
  /\ pc' = "loop"
  /\ UNCHANGED <<World, exit_path, slept, pause_at>>

InLoop == pc = "loop" /\ idx <= Len(df) /\ total_sent < MAX_EMAILS_PER_SESSION

\* lines 190-193
Skip ==
  /\ InLoop
  /\ df[idx] \in already_sent
  /\ total_skipped' = total_skipped + 1
  /\ idx' = idx + 1
  /\ slept' = <<>>
  /\ UNCHANGED <<World, pc, exit_path, df, already_sent, log, email_counter,
                 batch_size, total_sent, pause_at>>

\* lines 216-228 with ">" for ">=" at line 223
PacingLate(entries) ==
  \E delay \in EmailDelays :
    IF email_counter + 1 > batch_size
    THEN /\ \E batch_delay \in BatchDelays : slept' = <<delay, batch_delay>>
         /\ email_counter' = 0
         /\ batch_size' \in BatchSizes
         /\ pause_at' = Len(entries)
    ELSE /\ slept' = <<delay>>
         /\ email_counter' = email_counter + 1
         /\ UNCHANGED <<batch_size, pause_at>>

\* lines 216-228, after an attempt that left `entries` in log
Pacing(entries) ==
  \E delay \in EmailDelays :
    IF email_counter + 1 >= batch_size
    THEN /\ \E batch_delay \in BatchDelays : slept' = <<delay, batch_delay>>
         /\ email_counter' = 0
         /\ batch_size' \in BatchSizes
         /\ pause_at' = Len(entries)
    ELSE /\ slept' = <<delay>>
         /\ email_counter' = email_counter + 1
         /\ UNCHANGED <<batch_size, pause_at>>

\* lines 207-211, then 216-228
SendSuccess ==
  /\ InLoop
  /\ df[idx] \notin already_sent
  /\ log' = Append(log, Entry(df[idx], "Success", ""))
  /\ total_sent' = total_sent + 1
  /\ delivered' = delivered (+) SetToBag({df[idx]})
  /\ Pacing(log')
  /\ idx' = idx + 1
  /\ UNCHANGED <<recipients, ledger_exists, ledger, runs, prev_log, last_run_log,
                 svars, pc, exit_path, df, already_sent, total_skipped>>

\* lines 212-214, then 216-228
SendFailure ==
  /\ InLoop
  /\ df[idx] \notin already_sent
  /\ NumFailed(log) < FailLimit
  /\ log' = Append(log, Entry(df[idx], "Failed", "error"))
  /\ Pacing(log')
  /\ idx' = idx + 1
  /\ UNCHANGED <<World, pc, exit_path, df, already_sent, total_sent, total_skipped>>

\* lines 120-132
update_sent_log(entries) ==
  /\ prev_log' = IF ledger_exists THEN ledger ELSE <<>>
  /\ ledger' = updated_log(entries)
  /\ ledger_exists' = TRUE

\* the loop ends (rows exhausted, or the break of lines 182-184), then lines 230-234
LoopExit ==
  /\ pc = "loop"
  /\ ~InLoop
  /\ update_sent_log(log)
  /\ Return("completed")
  /\ UNCHANGED <<recipients, delivered, runs, last_run_log, svars, Locals>>

\* the script is started again
NewRun ==
  /\ pc = "returned"
  /\ runs < MaxRuns
  /\ runs' = runs + 1
  /\ pc' = "idle"
  /\ exit_path' = "none"
  /\ last_run_log' = log
  /\ df' = <<>>
  /\ already_sent' = {}
  /\ idx' = 0
  /\ log' = <<>>
  /\ email_counter' = 0
  /\ batch_size' = 0
  /\ total_sent' = 0
  /\ total_skipped' = 0
  /\ slept' = <<>>
  /\ pause_at' = 0
  /\ UNCHANGED <<recipients, ledger_exists, ledger, delivered, prev_log, svars>>

(* ------------------------------ scanner ------------------------------- *)
MaxBandit == 2        \* results in the analyzer's output
MaxOutdated == 1      \* packages pip lists as outdated

\* \s, as far as a line of a split('\n') can hold it
Whitespace == {" ", "\t", "\r"}

Quotes == {"\"", "'"}

kw_password == <<"p", "a", "s", "s", "w", "o", "r", "d">>
kw_api_key == <<"a", "p", "i", "_", "k", "e", "y">>
kw_secret == <<"s", "e", "c", "r", "e", "t">>
kw_token == <<"t", "o", "k", "e", "n">>

\* check_for_hardcoded_credentials: patterns, each  <kw>\s*=\s*["'][^"']+["']
patterns == <<kw_password, kw_api_key, kw_secret, kw_token>>

OsGetenv == <<"o", "s", ".", "g", "e", "t", "e", "n", "v">>
InputCall == <<"i", "n", "p", "u", "t", "(">>
Venv == <<"v", "e", "n", "v">>
DotGit == <<".", "g", "i", "t">>

call_eval == <<"e", "v", "a", "l">>
call_exec == <<"e", "x", "e", "c">>
call_os_system == <<"o", "s", ".", "s", "y", "s", "t", "e", "m">>
call_subprocess_call ==
  <<"s", "u", "b", "p", "r", "o", "c", "e", "s", "s", ".", "c", "a", "l", "l">>
call_subprocess_Popen ==
  <<"s", "u", "b", "p", "r", "o", "c", "e", "s", "s", ".", "P", "o", "p", "e", "n">>

\* check_for_input_validation: patterns, each  <call>\s*\(
call_patterns ==
  <<call_eval, call_exec, call_os_system, call_subprocess_call, call_subprocess_Popen>>

\* re.IGNORECASE on one ASCII character
Lower(c) ==
  IF \E k \in DOMAIN Uppers : Uppers[k] = c
  THEN Lowers[CHOOSE k \in DOMAIN Uppers : Uppers[k] = c]
  ELSE c

LowerSeq(s) == [k \in DOMAIN s |-> Lower(s[k])]

\* sub in s
Contains(s, sub) ==
  \E i \in 1..(Len(s) - Len(sub) + 1) : SubSeq(s, i, i + Len(sub) - 1) = sub

\* the first index >= i of s that holds no character of S (Len(s) + 1 when none)
RECURSIVE SkipWhile(_, _, _)
SkipWhile(s, i, S) ==
  IF i <= Len(s) /\ s[i] \in S THEN SkipWhile(s, i + 1, S) ELSE i

RECURSIVE SkipUntil(_, _, _)
SkipUntil(s, i, S) ==
  IF i <= Len(s) /\ s[i] \notin S THEN SkipUntil(s, i + 1, S) ELSE i

\* the keyword at i, compared as written
KeywordAtCaseSensitive(line, kw, i) ==
  /\ i + Len(kw) - 1 <= Len(line)
  /\ SubSeq(line, i, i + Len(kw) - 1) = kw

\* the keyword at i under re.IGNORECASE
KeywordAt(line, kw, i) ==
  /\ i + Len(kw) - 1 <= Len(line)
  /\ LowerSeq(SubSeq(line, i, i + Len(kw) - 1)) = kw

\* <kw>\s*=\s*["'][^"']+["'] matching from index i of line
CredMatchAt(line, kw, i) ==
  /\ KeywordAt(line, kw, i)
  /\ LET eq == SkipWhile(line, i + Len(kw), Whitespace)
     IN  /\ eq <= Len(line)
         /\ line[eq] = "="
         /\ LET q == SkipWhile(line, eq + 1, Whitespace)
            IN  /\ q <= Len(line)
                /\ line[q] \in Quotes
                /\ LET close == SkipUntil(line, q + 1, Quotes)
                   IN  close > q + 1 /\ close <= Len(line)

\* re.search(pattern, line, re.IGNORECASE)
cred_search(kw, line) == \E i \in 1..Len(line) : CredMatchAt(line, kw, i)

\* re.search(<call>\s*\(, line)
call_search(call, line) ==
  \E i \in 1..Len(line) :
    /\ KeywordAtCaseSensitive(line, call, i)
    /\ LET paren == SkipWhile(line, i + Len(call), Whitespace)
       IN  paren <= Len(line) /\ line[paren] = "("

\* line.strip()
Strip(line) ==
  LET keep == {k \in DOMAIN line : line[k] \notin Whitespace}
  IN  IF keep = {} THEN <<>>
      ELSE LET first == CHOOSE k \in keep : \A m \in keep : k <= m
               last == CHOOSE k \in keep : \A m \in keep : m <= k
           IN  SubSeq(line, first, last)

\* a finding's 'severity' key is absent
NoSeverity == "<absent>"

Finding(file, line, text, type, severity) ==
  [file |-> file, line |-> line, content |-> text, type |-> type, severity |-> severity]

CredType == "Potential hardcoded credential"

\* line 38, the condition on 'os.getenv' alone
ReportedIgnoringInput(kw, line) ==
  cred_search(kw, line) /\ ~Contains(line, OsGetenv)

\* line 38
Reported(kw, line) ==
  cred_search(kw, line) /\ ~Contains(line, OsGetenv) /\ ~Contains(line, InputCall)

\* lines 37-44: the findings of one line, pattern by pattern from the p-th
RECURSIVE CredFindings(_, _, _)
CredFindings(line, n, p) ==
  IF p > Len(patterns) THEN <<>>
  ELSE (IF Reported(patterns[p], line)
        THEN <<Finding(file_path, n, Strip(line), CredType, NoSeverity)>>
        ELSE <<>>) \o CredFindings(line, n, p + 1)

\* lines 29-30 and 103-104
Skipped(path) == Contains(path, Venv) \/ Contains(path, DotGit)

\* lines 111-118 for one line
RECURSIVE CallFindings(_, _, _)
CallFindings(line, n, p) ==
  IF p > Len(call_patterns) THEN <<>>
  ELSE (IF call_search(call_patterns[p], line)
        THEN <<Finding(file_path, n, Strip(line), "Potential input validation issue",
                       NoSeverity)>>
        ELSE <<>>) \o CallFindings(line, n, p + 1)

\* lines 100-123
RECURSIVE check_for_input_validation(_)
check_for_input_validation(n) ==
  IF Skipped(file_path) \/ n > Len(content) THEN <<>>
  ELSE CallFindings(content[n], n, 1) \o check_for_input_validation(n + 1)

\* what issue_severity holds in a result; "<None>" when the key is missing
Severities == {"HIGH", "MEDIUM", "LOW", "UNDEFINED", "<None>"}

BanditResults == UNION {[1..n -> Severities] : n \in 0..MaxBandit}

\* lines 71-78
BanditFindings(results) ==
  [k \in DOMAIN results |->
     Finding(file_path, k, <<>>, "Security issue", results[k])]

\* lines 143-149
OutdatedFindings(n) ==
  [k \in 1..n |-> Finding("requirements.txt", 0, <<>>, "Outdated dependency", NoSeverity)]

CountSeverity(fs, sev) == Cardinality({k \in DOMAIN fs : fs[k].severity = sev})

\* line 169, without LOW in the list
OtherIssuesWithoutLow(fs) ==
  Cardinality({k \in DOMAIN fs : fs[k].severity \notin {"HIGH", "MEDIUM"}})

\* line 169
OtherIssues(fs) ==
  Cardinality({k \in DOMAIN fs : fs[k].severity \notin {"HIGH", "MEDIUM", "LOW"}})

\* lines 164-170
Summary(fs) ==
  [total_issues    |-> Len(fs),
   high_severity   |-> CountSeverity(fs, "HIGH"),
   medium_severity |-> CountSeverity(fs, "MEDIUM"),
   low_severity    |-> CountSeverity(fs, "LOW"),
   other_issues    |-> OtherIssues(fs)]

\* lines 212-214, testing medium_severity too
ReportExitCodeMedium(s) ==
  IF s.high_severity + s.medium_severity > 0 THEN 1 ELSE 0

\* lines 212-214
ReportExitCode(s) == IF s.high_severity > 0 THEN 1 ELSE 0

NoSummary ==
  [total_issues |-> 0, high_severity |-> 0, medium_severity |-> 0,
   low_severity |-> 0, other_issues |-> 0]

\* lines 36-45: one line of the file
ScanCredLine ==
  /\ scan_pc = "creds"
  /\ ~Skipped(file_path)
  /\ line_num <= Len(content)
  /\ findings' = findings \o CredFindings(content[line_num], line_num, 1)
  /\ line_num' = line_num + 1
  /\ UNCHANGED <<mvars, file_path, content, scan_pc, all_findings, summary, exit_code>>

\* lines 29-30, 49 and 223: the file is skipped or at its end
CredsDone ==
  /\ scan_pc = "creds"
  /\ Skipped(file_path) \/ line_num > Len(content)
  /\ all_findings' = all_findings \o findings
  /\ scan_pc' = "bandit"
  /\ UNCHANGED <<mvars, file_path, content, line_num, findings, summary, exit_code>>

\* lines 57-86 and 226
check_for_security_vulnerabilities ==
  /\ scan_pc = "bandit"
  /\ \E installed, failed, parsed \in BOOLEAN, returncode \in {0, 1},
        results \in BanditResults :
       all_findings' =
         IF installed /\ ~failed /\ returncode # 0 /\ parsed
         THEN all_findings \o BanditFindings(results)
         ELSE all_findings
  /\ scan_pc' = "input"
  /\ UNCHANGED <<mvars, file_path, content, line_num, findings, summary, exit_code>>

\* line 229
InputValidation ==
  /\ scan_pc = "input"
  /\ all_findings' = all_findings \o check_for_input_validation(1)
  /\ scan_pc' = "deps"
  /\ UNCHANGED <<mvars, file_path, content, line_num, findings, summary, exit_code>>

\* lines 131-155 and 232
check_for_outdated_dependencies ==
  /\ scan_pc = "deps"
  /\ \E requirements, pip_ok \in BOOLEAN, n \in 0..MaxOutdated :
       all_findings' =
         IF requirements /\ pip_ok
         THEN all_findings \o OutdatedFindings(n)
         ELSE all_findings
  /\ scan_pc' = "report"
  /\ UNCHANGED <<mvars, file_path, content, line_num, findings, summary, exit_code>>

\* lines 161-214 and 235-237
generate_report ==
  /\ scan_pc = "report"
  /\ summary' = Summary(all_findings)
  /\ exit_code' = ReportExitCode(Summary(all_findings))
  /\ scan_pc' = "exit"
  /\ UNCHANGED <<mvars, file_path, content, line_num, findings, all_findings>>

Lhs ==
  { kw_password, <<"P", "a", "s", "s", "W", "o", "r", "d">>, kw_api_key, kw_secret,
    kw_token, <<"p", "a", "s", "s", "w", "d">> }

Eq == { <<" ", "=", " ">>, <<"\t", "=">>, <<" ", "=", "=", " ">> }

Rhs ==
  { <<"\"", "l", "i", "t", "e", "r", "a", "l", "1", "2", "3", "\"">>,
    <<"'", "x", "'">>,
    <<"\"", "\"">>,
    <<"o", "s", ".", "g", "e", "t", "e", "n", "v", "(", "\"", "X", "\"", ")">>,
    <<"i", "n", "p", "u", "t", "(", "\"", "p", "\"", ")">>,
    <<"\"", "a", "\"", " ", "+", " ", "o", "s", ".", "g", "e", "t", "e", "n", "v",
      "(", "\"", "B", "\"", ")">>,
    <<"\"", "d", "\"", " ", "o", "r", " ", "i", "n", "p", "u", "t", "(", "\"", "p", "\"", ")">> }

Assignments == {l \o e \o r : l \in Lhs, e \in Eq, r \in Rhs}

OtherLines ==
  { <<"p", "a", "s", "s", "w", "o", "r", "d", " ", "=", " ", "\"", "x", "\"", ";", " ",
      "t", "o", "k", "e", "n", " ", "=", " ", "'", "y", "'">>,
    <<" ", " ", "e", "v", "a", "l", "(", "x", ")">>,
    <<"o", "s", ".", "s", "y", "s", "t", "e", "m", " ", "(", "\"", "l", "s", "\"", ")">>,
    <<"t", "o", "k", "e", "n", " ", "=", " ", "\"", "t", "\"", ";", " ", "s", "u", "b",
      "p", "r", "o", "c", "e", "s", "s", ".", "P", "o", "p", "e", "n", "(", "c", ")">>,
    <<"x", " ", "=", " ", "1">>,
    <<>> }

Files ==
  {<<l>> : l \in Assignments \cup OtherLines}
    \cup {<<a, b>> : a \in OtherLines, b \in OtherLines}

Paths ==
  { <<"a", "p", "p", ".", "p", "y">>,
    <<"v", "e", "n", "v", "/", "a", ".", "p", "y">> }

ScannerOff ==
  /\ file_path = <<>>
  /\ content = <<>>
  /\ scan_pc = "off"
  /\ line_num = 1
  /\ findings = <<>>
  /\ all_findings = <<>>
  /\ summary = NoSummary
  /\ exit_code = 0

InitLocals ==
  /\ runs = 1
  /\ pc = "idle"
  /\ exit_path = "none"
  /\ delivered = EmptyBag
  /\ df = <<>>
  /\ already_sent = {}
  /\ idx = 0
  /\ log = <<>>
  /\ email_counter = 0
  /\ batch_size = 0
  /\ total_sent = 0
  /\ total_skipped = 0
  /\ slept = <<>>
  /\ pause_at = 0
  /\ prev_log = <<>>
  /\ last_run_log = <<>>

InitLedgers ==
  {<<FALSE, <<>>>>, <<TRUE, <<>>>>}
    \cup {<<TRUE, <<Entry(e, "Success", "")>>>> : e \in ValidPool}

Init ==
  /\ recipients \in ShortLists \cup {GenList(PaceRows)}
  /\ \E l \in InitLedgers : ledger_exists = l[1] /\ ledger = l[2]
  /\ InitLocals
  /\ ScannerOff

InitCap ==
  /\ recipients = GenList(LongRows)
  /\ ledger_exists = FALSE
  /\ ledger = <<>>
  /\ InitLocals
  /\ ScannerOff

InitScan ==
  /\ file_path \in Paths
  /\ content \in Files
  /\ scan_pc = "creds"
  /\ line_num = 1
  /\ findings = <<>>
  /\ all_findings = <<>>
  /\ summary = NoSummary
  /\ exit_code = 0
  /\ recipients = <<>>
  /\ ledger_exists = FALSE
  /\ ledger = <<>>
  /\ InitLocals

Next ==
  \/ AbortNoFiles
  \/ AbortNoRecipients
  \/ AbortResume
  \/ AbortSmtp
  \/ BeginLoop
  \/ Skip
  \/ SendSuccess
  \/ SendFailure
  \/ LoopExit
  \/ NewRun

Spec == Init /\ [][Next]_vars

SpecCap == InitCap /\ [][Next]_vars

NextScan ==
  \/ ScanCredLine
  \/ CredsDone
  \/ check_for_security_vulnerabilities
  \/ InputValidation
  \/ check_for_outdated_dependencies
  \/ generate_report

SpecScan == InitScan /\ [][NextScan]_vars

(* ------------------------- the checked claims ------------------------- *)
LedgerEmails == {ledger[k].email : k \in DOMAIN ledger}

EmailsOf(entries) == {entries[k].email : k \in DOMAIN entries}

AttemptedSeq == [k \in DOMAIN log |-> log[k].email]

NotAlreadySent(email) == email \notin already_sent

\* the rows of the validated list whose email is not in the ledger read at the start
Eligible == SelectSeq(df, NotAlreadySent)

Completed == pc = "returned" /\ exit_path = "completed"

\* the loop was left by the break of line 184
CapHit == Completed /\ idx <= Len(df)

\* the rows the run appended to the ledger
AddedRows == SubSeq(ledger, Len(prev_log) + 1, Len(ledger))

FailedOnly(entries, k) ==
  /\ entries[k].status = "Failed"
  /\ ~\E j \in DOMAIN entries :
        entries[j].email = entries[k].email /\ entries[j].status = "Success"

FatalPaths == {"no_files", "no_recipients", "resume_error", "auth_failed", "smtp_error"}

\* C1: a completed run over a validated list with more than 50 eligible
\* recipients attempts exactly 50 sends, successes and failures counted alike,
\* and attempts none of the remaining eligible recipients.
C1_SessionCap ==
  (Completed /\ Len(Eligible) > MAX_EMAILS_PER_SESSION) =>
    /\ Len(log) = MAX_EMAILS_PER_SESSION
    /\ AttemptedSeq = SubSeq(Eligible, 1, MAX_EMAILS_PER_SESSION)

C3_InvalidNeverAttempted ==
  \A e \in {recipients[k] : k \in DOMAIN recipients} :
    (~is_valid_email(e) \/ e \in InvalidPool) =>
      /\ e \notin Range(df)
      /\ e \notin EmailsOf(log)
      /\ e \notin BagToSet(delivered)
      /\ e \notin EmailsOf(AddedRows)

C3_Witness ==
  /\ Completed
  /\ \E k \in DOMAIN recipients : recipients[k] \in InvalidPool
  /\ Len(SuccessOnly(log)) > 0
  /\ AddedRows # <<>>

\* C4: after a failed send the run goes on to every later eligible row (until
\* the session cap), the failed email is not in the ledger the run writes, and
\* the following run over the same list attempts it again.
C4_FailureHandling ==
  /\ (Completed /\ ~CapHit) => Len(log) = Len(Eligible)
  /\ Completed =>
       \A k \in DOMAIN log : log[k].status = "Failed" => log[k].email \notin LedgerEmails
  /\ (Completed /\ ~CapHit /\ runs >= 2) =>
       \A k \in DOMAIN last_run_log :
         last_run_log[k].status = "Failed" => last_run_log[k].email \in EmailsOf(log)

\* What holds of failure handling for every list, repeated rows included: the
\* run goes on to every later eligible row; no Failed entry is written to the
\* ledger; an email whose sends in the run all failed is not in the ledger the
\* run writes, and the following run attempts it again.
FailedOnlyRetried ==
  /\ (Completed /\ ~CapHit) => Len(log) = Len(Eligible)
  /\ Completed =>
       /\ \A k \in DOMAIN ledger : ledger[k].status = "Success"
       /\ \A k \in DOMAIN log : FailedOnly(log, k) => log[k].email \notin LedgerEmails
  /\ (Completed /\ ~CapHit /\ runs >= 2) =>
       \A k \in DOMAIN last_run_log :
         FailedOnly(last_run_log, k) => last_run_log[k].email \in EmailsOf(log)

FailedOnlyRetriedWitness ==
  /\ Completed
  /\ runs = 2
  /\ \E k \in DOMAIN last_run_log :
       /\ FailedOnly(last_run_log, k)
       /\ \E j \in DOMAIN last_run_log : j > k /\ last_run_log[j].status = "Success"
       /\ \E j \in DOMAIN log :
            log[j].email = last_run_log[k].email /\ log[j].status = "Success"

\* C5: a run that ends on a fatal setup error (missing file, no valid
\* recipient, unreadable resume, SMTP connect or login failure) returns with no
\* send attempted, nothing accepted by the server and the ledger file untouched.
C5_FatalSetup ==
  [][(pc = "idle" /\ pc' = "returned" /\ exit_path' \in FatalPaths) =>
       /\ log' = <<>>
       /\ total_sent' = 0
       /\ delivered' = delivered
       /\ ledger_exists' = ledger_exists
       /\ ledger' = ledger]_vars

C5_Witness ==
  /\ pc = "returned"
  /\ exit_path = "auth_failed"
  /\ ~ledger_exists
  /\ Range(recipients) \cap ValidPool # {}

\* C6: at every loop head the batch size is in 3..7 and the attempt counter is
\* the number of attempts since the last batch pause and below the batch size;
\* every attempt is followed by a per-message delay of 2..12 s, and by a batch
\* pause of 30..90 s exactly when the attempts since the last pause reach the
\* batch size, after which the counter is 0 and the size drawn again; a skipped
\* row sleeps nothing and leaves counter and batch size alone.
C6_BatchPacing ==
  /\ [](pc = "loop" =>
          /\ batch_size \in 3..7
          /\ email_counter >= 0
          /\ email_counter < batch_size
          /\ email_counter = Len(log) - pause_at)
  /\ [][/\ Len(log') = Len(log) + 1 =>
             /\ Len(slept') \in {1, 2}
             /\ slept'[1] >= 2 /\ slept'[1] <= 12
             /\ (Len(slept') = 2) <=> (Len(log') - pause_at = batch_size)
             /\ Len(slept') = 2 =>
                  /\ slept'[2] >= 30 /\ slept'[2] <= 90
                  /\ email_counter' = 0
                  /\ pause_at' = Len(log')
                  /\ batch_size' \in 3..7
             /\ Len(slept') = 1 =>
                  /\ email_counter' = email_counter + 1
                  /\ batch_size' = batch_size
        /\ (pc = "loop" /\ total_skipped' = total_skipped + 1) =>
             /\ slept' = <<>>
             /\ log' = log
             /\ email_counter' = email_counter
             /\ batch_size' = batch_size]_vars

C6_Witness ==
  /\ pc = "loop"
  /\ Len(slept) = 2
  /\ pause_at = 7
  /\ NumFailed(log) = 1
  /\ batch_size = 4

\* C7: main returns a non-zero exit code exactly when at least one finding has
\* severity HIGH, which is when the summary's high_severity is above 0.
C7_ExitStatus ==
  scan_pc = "exit" =>
    /\ (exit_code # 0) <=> (\E k \in DOMAIN all_findings : all_findings[k].severity = "HIGH")
    /\ (exit_code # 0) <=> (summary.high_severity > 0)
    /\ exit_code \in {0, 1}

C7_Witness ==
  /\ scan_pc = "exit"
  /\ exit_code = 1
  /\ \E k \in DOMAIN all_findings : all_findings[k].severity = NoSeverity

\* C8: in the report total_issues is the number of findings and equals the sum
\* of the four severity buckets, and every finding without a severity is counted
\* in other_issues.
C8_SummaryPartition ==
  scan_pc = "exit" =>
    /\ summary.total_issues = Len(all_findings)
    /\ summary.total_issues =
         summary.high_severity + summary.medium_severity
           + summary.low_severity + summary.other_issues
    /\ summary.other_issues >=
         Cardinality({k \in DOMAIN all_findings :
                        all_findings[k].severity \in {NoSeverity, "<None>"}})

C8_Witness ==
  /\ scan_pc = "exit"
  /\ summary.high_severity > 0
  /\ summary.low_severity > 0
  /\ summary.other_issues > 0

ExampleLiteral ==
  <<"p", "a", "s", "s", "w", "o", "r", "d", " ", "=", " ",
    "\"", "l", "i", "t", "e", "r", "a", "l", "1", "2", "3", "\"">>

ExampleGetenv ==
  <<"p", "a", "s", "s", "w", "o", "r", "d", " ", "=", " ",
    "o", "s", ".", "g", "e", "t", "e", "n", "v", "(", "\"", "X", "\"", ")">>

FindingsOfLine(n) == {k \in DOMAIN findings : findings[k].line = n}

\* C9: for every line of a scanned file already read, the scan holds a
\* 'Potential hardcoded credential' finding for the line exactly when the line
\* matches one of the four credential patterns and contains neither 'os.getenv'
\* nor 'input('; password = "literal123" has exactly one finding and
\* password = os.getenv("X") has none.
C9_CredentialScan ==
  /\ \A k \in DOMAIN findings : findings[k].type = CredType
  /\ ~Skipped(file_path) =>
       \A n \in 1..(line_num - 1) :
         /\ (FindingsOfLine(n) # {}) <=>
              /\ \E p \in DOMAIN patterns : cred_search(patterns[p], content[n])
              /\ ~Contains(content[n], OsGetenv)
              /\ ~Contains(content[n], InputCall)
         /\ content[n] = ExampleLiteral => Cardinality(FindingsOfLine(n)) = 1
         /\ content[n] = ExampleGetenv => FindingsOfLine(n) = {}

C9_Witness ==
  /\ line_num = 2
  /\ content[1] = ExampleLiteral
  /\ Len(findings) = 1
  /\ findings[1].content = ExampleLiteral

\* C10: after any sequence of completed runs no address has been accepted by
\* the server more than once, and the ledger holds at most one row per email.
C10_AtMostOnce ==
  pc = "returned" =>
    /\ \A e \in BagToSet(delivered) : CopiesIn(e, delivered) <= 1
    /\ \A j, k \in DOMAIN ledger : ledger[j].email = ledger[k].email => j = k
====
